---- MODULE Spec2Model ----
(***************************************************************************)
(* Psilo-VFS: the union-mount engine (src/src/vfs.rs, src/src/data.rs),    *)
(* the path operations it relies on (src/src/path.rs), the in-memory tree  *)
(* source (src/src/rom.rs) and the filesystem source (src/src/fs.rs).      *)
(*                                                                         *)
(* A path is the sequence of the characters of its text; a character is a  *)
(* one-character string and Ord gives its code point, so that comparisons  *)
(* are the codepoint-wise comparisons of Rust's str.                       *)
(***************************************************************************)
EXTENDS Integers, Sequences, FiniteSets, TLC

VARIABLES mounts, lastOp, pathOp, lock, threads, rom, disk

vars == <<mounts, lastOp, pathOp, lock, threads, rom, disk>>

\* Greatest number of entries the mount table is allowed to reach.
MaxMounts == 3

\* Greatest length of a text given to try_from_str.
MaxLen == 5

\* Greatest length of the texts whose paths are given to the operations of
\* Path and PathBuf.
MaxPathLen == 4

-----------------------------------------------------------------------------
(* Characters and strings                                                  *)

Ord(c) ==
  CASE c = "-" -> 45
    [] c = "/" -> 47
    [] c = "a" -> 97
    [] c = "b" -> 98

RECURSIVE StrCmp(_, _)
\* Ord for str: lexicographic, code point by code point.
StrCmp(a, b) ==
  IF a = <<>> /\ b = <<>> THEN "Equal"
  ELSE IF a = <<>> THEN "Less"
  ELSE IF b = <<>> THEN "Greater"
  ELSE IF Ord(Head(a)) < Ord(Head(b)) THEN "Less"
  ELSE IF Ord(Head(a)) > Ord(Head(b)) THEN "Greater"
  ELSE StrCmp(Tail(a), Tail(b))

None == [tag |-> "None"]
Some(x) == [tag |-> "Some", val |-> x]

\* Result: Ok(v), or Err of an error kind.
Ok(v) == [kind |-> "Ok", val |-> v]
Err(k) == [kind |-> k]

starts_with(s, pre) ==
  Len(pre) <= Len(s) /\ SubSeq(s, 1, Len(pre)) = pre

ends_with(s, suf) ==
  Len(suf) <= Len(s) /\ SubSeq(s, Len(s) - Len(suf) + 1, Len(s)) = suf

strip_prefix(s, pre) ==
  IF starts_with(s, pre) THEN Some(SubSeq(s, Len(pre) + 1, Len(s))) ELSE None

RECURSIVE split(_)
\* str::split('/'): the pieces between the separators, empty pieces included.
split(s) ==
  IF \A i \in 1..Len(s) : s[i] # "/" THEN <<s>>
  ELSE LET k == CHOOSE i \in 1..Len(s) :
                   s[i] = "/" /\ \A j \in 1..(i - 1) : s[j] # "/"
       IN <<SubSeq(s, 1, k - 1)>> \o split(SubSeq(s, k + 1, Len(s)))

-----------------------------------------------------------------------------
(* Path (path.rs)                                                          *)

is_absolute(p) == Len(p) > 0 /\ p[1] = "/"

is_directory(p) == (Len(p) > 0 /\ p[Len(p)] = "/") \/ p = <<>>

components(p) ==
  LET s1 == IF starts_with(p, <<"/">>) THEN Tail(p) ELSE p
      s2 == IF ends_with(s1, <<"/">>) THEN SubSeq(s1, 1, Len(s1) - 1) ELSE s1
  IN IF s2 = <<>> THEN <<>> ELSE split(s2)

\* None, Some(remainder), or a panic when other is the empty path (the slice
\* other[..len-1] underflows).
with_prefix_absolute(self, other) ==
  IF ~is_directory(other) THEN None
  ELSE IF Len(other) = 0 THEN [tag |-> "Panic"]
  ELSE LET x == strip_prefix(self, SubSeq(other, 1, Len(other) - 1))
       IN IF x.tag = "None" THEN None
          ELSE IF ~starts_with(x.val, <<"/">>) THEN None
          ELSE Some(x.val)

make_file_into_dir(p) == Append(p, "/")

strip_suffix(s, suf) ==
  IF ends_with(s, suf) THEN Some(SubSeq(s, 1, Len(s) - Len(suf))) ELSE None

\* String::pop: the text without its last character; no effect on "".
pop(s) == IF s = <<>> THEN s ELSE SubSeq(s, 1, Len(s) - 1)

RECURSIVE pop_to_slash(_)
\* while !s.ends_with("/") && s.len() > 0 { s.pop(); }
pop_to_slash(s) ==
  IF Len(s) > 0 /\ ~ends_with(s, <<"/">>) THEN pop_to_slash(pop(s)) ELSE s

RECURSIVE trim_end_slashes(_)
\* str::trim_end_matches('/'): every trailing '/' is removed.
trim_end_slashes(s) ==
  IF ends_with(s, <<"/">>) THEN trim_end_slashes(pop(s)) ELSE s

\* "E" stands for the precomposed U+00E9, whose canonical decomposition is
\* "e" followed by the combining acute accent, written "'" here; every other
\* character of the model decomposes to itself.
decompose_canonical(c) == IF c = "E" THEN <<"e", "'">> ELSE <<c>>

RECURSIVE decompose(_)
decompose(s) ==
  IF s = <<>> THEN <<>> ELSE decompose_canonical(Head(s)) \o decompose(Tail(s))

\* is_nfd_quick(s.chars()) == IsNormalized::Yes
is_nfd_quick(s) == \A i \in 1..Len(s) : s[i] # "E"

to_upper(c) ==
  CASE c = "a" -> "A" [] c = "u" -> "U" [] c = "x" -> "X" [] c = "c" -> "C"
    [] c = "o" -> "O" [] c = "m" -> "M" [] c = "n" -> "N" [] c = "l" -> "L"
    [] c = "p" -> "P" [] c = "t" -> "T" [] c = "r" -> "R" [] OTHER -> c

Digits19 == {"1", "2", "3", "4", "5", "6", "7", "8", "9"}

ReservedNames ==
  { <<"A", "U", "X">>, <<"C", "O", "N">>, <<"N", "U", "L">>, <<"P", "R", "N">> }
  \cup { <<"C", "O", "M", d>> : d \in Digits19 }
  \cup { <<"L", "P", "T", d>> : d \in Digits19 }

\* ^\.
INVALID_PATH_PREFIX_CHAR_PATTERN(c) == Len(c) > 0 /\ c[1] = "."

\* [. ~^!]$
INVALID_PATH_SUFFIX_CHAR_PATTERN(c) ==
  Len(c) > 0 /\ c[Len(c)] \in {".", " ", "~", "^", "!"}

\* The printable characters of the class; the control characters are not in
\* the alphabet of the model.
INVALID_PATH_CHAR_PATTERN(c) ==
  \E i \in 1..Len(c) :
     c[i] \in {"\"", "*", "/", ":", "?", "\\", "<", ">", "|"}

\* ^(?i:AUX|CO(?:M[1-9]|N)|LPT[1-9]|NUL|PRN)(?:\.|$)
INVALID_PATH_NAME_PATTERN(c) ==
  \E name \in ReservedNames :
     /\ Len(c) >= Len(name)
     /\ [k \in 1..Len(name) |-> to_upper(c[k])] = name
     /\ (Len(c) = Len(name) \/ c[Len(name) + 1] = ".")

\* The text between the leading and the trailing '/', as try_from_str cuts it.
subset_of(s) ==
  LET s1 == IF starts_with(s, <<"/">>) THEN Tail(s) ELSE s
  IN IF ends_with(s1, <<"/">>) THEN pop(s1) ELSE s1

RECURSIVE check_components(_, _, _)
\* The first loop of try_from_str: the error of the first invalid component,
\* or Ok(need_edit).
check_components(comps, need_edit, any_non_dotdot_components) ==
  IF comps = <<>> THEN Ok(need_edit)
  ELSE LET component == Head(comps) IN
    IF component = <<".">>
    THEN check_components(Tail(comps), TRUE, any_non_dotdot_components)
    ELSE IF component = <<".", ".">>
    THEN check_components(Tail(comps),
                          need_edit \/ any_non_dotdot_components,
                          any_non_dotdot_components)
    ELSE IF INVALID_PATH_PREFIX_CHAR_PATTERN(component)
    THEN Err("InvalidStartChar")
    ELSE IF INVALID_PATH_SUFFIX_CHAR_PATTERN(component)
    THEN Err("InvalidEndChar")
    ELSE IF INVALID_PATH_CHAR_PATTERN(component) THEN Err("InvalidChar")
    ELSE IF INVALID_PATH_NAME_PATTERN(component) THEN Err("ReservedName")
    ELSE check_components(Tail(comps), need_edit, TRUE)

RECURSIVE rebuild(_, _)
\* The second loop of try_from_str: the text built in ret, or EscapedRoot.
rebuild(comps, ret) ==
  IF comps = <<>> THEN Ok(ret)
  ELSE LET component == Head(comps) IN
    IF component = <<".">> THEN rebuild(Tail(comps), ret)
    ELSE IF component = <<".", ".">>
    THEN IF ret = <<>> \/ ends_with(ret, <<".", ".", "/">>)
         THEN rebuild(Tail(comps), ret \o <<".", ".", "/">>)
         ELSE IF ret = <<"/">> THEN Err("EscapedRoot")
         ELSE IF ~ends_with(ret, <<"/">>) THEN [kind |-> "Panic"]
         ELSE rebuild(Tail(comps), pop_to_slash(pop(ret)))
    ELSE rebuild(Tail(comps), (ret \o decompose(component)) \o <<"/">>)

try_from_str(s) ==
  IF s = <<>> \/ s = <<"/">> THEN Ok(s)
  ELSE IF s = <<"/", "/">> THEN Err("DoubleSlash")
  ELSE IF ends_with(s, <<"/", ".", ".">>) \/ s = <<".", ".">>
  THEN Err("DotDotFile")
  ELSE LET comps == split(subset_of(s))
           checked == check_components(comps, FALSE, FALSE)
       IN IF checked.kind # "Ok" THEN checked
          ELSE IF ~(checked.val \/ ~is_nfd_quick(s)) THEN Ok(s)
          ELSE LET built ==
                     rebuild(comps,
                             IF starts_with(s, <<"/">>) THEN <<"/">> ELSE <<>>)
               IN IF built.kind # "Ok" THEN built
                  ELSE IF ~ends_with(s, <<"/">>) THEN Ok(pop(built.val))
                  ELSE built

\* The macro's normalized(): every character decomposed.
normalized(s) == decompose(s)

RECURSIVE validated_components(_)
\* The first loop of the macro's validated(): the error of the first invalid
\* component, or Ok.
validated_components(comps) ==
  IF comps = <<>> THEN Ok(<<>>)
  ELSE LET component == Head(comps) IN
    IF component = <<".">> \/ component = <<".", ".">>
    THEN validated_components(Tail(comps))
    ELSE IF INVALID_PATH_PREFIX_CHAR_PATTERN(component)
    THEN Err("InvalidStartChar")
    ELSE IF INVALID_PATH_SUFFIX_CHAR_PATTERN(component)
    THEN Err("InvalidEndChar")
    ELSE IF INVALID_PATH_CHAR_PATTERN(component) THEN Err("InvalidChar")
    ELSE IF INVALID_PATH_NAME_PATTERN(component) THEN Err("ReservedName")
    ELSE validated_components(Tail(comps))

\* The macro's validated(): the checks of try_from_str, and then its second
\* loop for every text, edited or not.
validated(s) ==
  IF s = <<>> \/ s = <<"/">> THEN Ok(s)
  ELSE IF s = <<"/", "/">> THEN Err("DoubleSlash")
  ELSE IF ends_with(s, <<"/", ".", ".">>) \/ s = <<".", ".">>
  THEN Err("DotDotFile")
  ELSE LET comps == split(subset_of(s))
           checked == validated_components(comps)
       IN IF checked.kind # "Ok" THEN checked
          ELSE LET built ==
                     rebuild(comps,
                             IF starts_with(s, <<"/">>) THEN <<"/">> ELSE <<>>)
               IN IF built.kind # "Ok" THEN built
                  ELSE IF ~ends_with(s, <<"/">>) THEN Ok(pop(built.val))
                  ELSE built

\* p!(s): the path constant emitted, or the compile error.
p_literal(s) == validated(normalized(s))

parent(p) == pop_to_slash(trim_end_slashes(p))

RECURSIVE last_dot_piece(_)
\* split('.').last(): the text after the last '.', or the whole text.
last_dot_piece(c) ==
  IF \A i \in 1..Len(c) : c[i] # "." THEN c
  ELSE LET k == CHOOSE i \in 1..Len(c) :
                   c[i] = "." /\ \A j \in (i + 1)..Len(c) : c[j] # "."
       IN SubSeq(c, k + 1, Len(c))

extension(p) ==
  LET cs == components(p)
  IN IF cs = <<>> THEN None ELSE Some(last_dot_piece(cs[Len(cs)]))

\* The outcome of a call on a PathBuf: what it returns and the buffer after.
Buf(result, self) == [result |-> result, self |-> self]

RECURSIVE join_loop(_, _)
\* The while loop of try_join and the push_str after it.
join_loop(self, addendum) ==
  LET nu == strip_prefix(addendum, <<".", ".", "/">>)
  IN IF nu.tag = "None" THEN Buf(Ok(self \o addendum), self \o addendum)
     ELSE IF self = <<"/">> THEN Buf(Err("EscapedRoot"), self)
     ELSE IF self = <<>> THEN Buf(Ok(self \o addendum), self \o addendum)
     ELSE join_loop(pop_to_slash(pop(self)), nu.val)

\* Every base is taken for a directory.
join_admits_any_base(self, moar) == TRUE

join_admits(self, moar) ==
  is_directory(self) \/ starts_with(moar, <<".", ".", "/">>)

try_join(self, moar) ==
  IF is_absolute(moar) THEN Buf(Err("PathNotRelative"), self)
  ELSE IF join_admits(self, moar) THEN join_loop(self, moar)
  ELSE Buf(Err("BasePathNotDir"), self)

up_one_level(self) ==
  IF self = <<>> \/ self = <<"/">> THEN Buf(FALSE, self)
  ELSE Buf(TRUE, pop_to_slash(pop(self)))

-----------------------------------------------------------------------------
(* In-memory tree source (rom.rs)                                          *)

File(data) == [type |-> "File", data |-> data]
Dir(subnodes) == [type |-> "Dir", subnodes |-> subnodes]
Panic == [type |-> "Panic"]

InsertAt(s, i, x) == SubSeq(s, 1, i - 1) \o <<x>> \o SubSeq(s, i, Len(s))

\* A search that gives the end of the vector as the place of a name that is
\* not there.
binary_search_to_the_end(subnodes, key) ==
  IF \E i \in 1..Len(subnodes) : subnodes[i].name = key
  THEN [found |-> TRUE,
        idx |-> CHOOSE i \in 1..Len(subnodes) : subnodes[i].name = key]
  ELSE [found |-> FALSE, idx |-> Len(subnodes) + 1]

\* binary_search_by over children sorted by name: Ok(i) when the name is
\* there, Err(i) with the insertion point otherwise.
binary_search(subnodes, key) ==
  IF \E i \in 1..Len(subnodes) : subnodes[i].name = key
  THEN [found |-> TRUE,
        idx |-> CHOOSE i \in 1..Len(subnodes) : subnodes[i].name = key]
  ELSE [found |-> FALSE,
        idx |-> 1 + Cardinality({i \in 1..Len(subnodes) :
                                   StrCmp(subnodes[i].name, key) = "Less"})]

RECURSIVE InsertEntry(_, _, _, _)
\* The walk of Source::new for one listing entry, started at this_node with
\* the components still to go.
InsertEntry(this_node, comps, isDir, data) ==
  IF this_node.type = "File" THEN Panic
  ELSE
    LET subnodes == this_node.subnodes
        bs == binary_search(subnodes, Head(comps))
    IN IF Len(comps) = 1
       THEN IF bs.found THEN Panic
            ELSE Dir(InsertAt(subnodes, bs.idx,
                       [name |-> Head(comps),
                        node |-> IF isDir THEN Dir(<<>>) ELSE File(data)]))
       ELSE LET withChild == IF bs.found THEN subnodes
                             ELSE InsertAt(subnodes, bs.idx,
                                    [name |-> Head(comps), node |-> Dir(<<>>)])
                child == InsertEntry(withChild[bs.idx].node, Tail(comps),
                                     isDir, data)
            IN IF child.type = "Panic" THEN Panic
               ELSE Dir([withChild EXCEPT ![bs.idx].node = child])

RECURSIVE RomBuild(_, _)
RomBuild(root, listing) ==
  IF listing = <<>> THEN root
  ELSE LET path == Head(listing).path
           data == Head(listing).data
       IN IF ~is_absolute(path) THEN Panic
          ELSE IF is_directory(path) /\ Len(data) > 0 THEN Panic
          ELSE IF path = <<"/">> THEN Panic
          ELSE LET r == InsertEntry(root, components(path),
                                    is_directory(path), data)
               IN IF r.type = "Panic" THEN Panic
                  ELSE RomBuild(r, Tail(listing))

\* Source::new
RomNew(listing) == RomBuild(Dir(<<>>), listing)

RECURSIVE ResolveFrom(_, _)
ResolveFrom(this_node, comps) ==
  IF comps = <<>> THEN Some(this_node)
  ELSE IF this_node.type = "File" THEN None
  ELSE LET subnodes == this_node.subnodes
       IN IF \E i \in 1..Len(subnodes) : subnodes[i].name = Head(comps)
          THEN LET i == CHOOSE j \in 1..Len(subnodes) :
                           /\ subnodes[j].name = Head(comps)
                           /\ \A k \in 1..(j - 1) :
                                 subnodes[k].name # Head(comps)
               IN ResolveFrom(subnodes[i].node, Tail(comps))
          ELSE None

resolve(root, path) == ResolveFrom(root, components(path))

\* io::Error::new(ErrorKind::Other, message)
Misuse(msg) == [kind |-> "Other", msg |-> msg]

\* <Source as VFSSource>::open
RomOpen(root, path) ==
  LET r == resolve(root, path)
  IN IF r.tag = "None" THEN Err("NotFound")
     ELSE IF r.val.type = "File" THEN Ok(r.val.data)
     ELSE Err("IsADirectory")

\* <Source as VFSSource>::ls
RomLs(root, path) ==
  LET r == resolve(root, path)
  IN IF r.tag = "None" THEN Err("NotFound")
     ELSE IF r.val.type = "File" THEN Err("NotADirectory")
     ELSE LET nodes == r.val.subnodes
          IN Ok([i \in 1..Len(nodes) |->
                   IF nodes[i].node.type = "Dir"
                   THEN make_file_into_dir(nodes[i].name)
                   ELSE nodes[i].name])

\* <Source as VFSSource>::update
RomUpdate(root, path, data) == Err("ReadOnlyFilesystem")

RomSource(listing) == [kind |-> "rom", root |-> RomNew(listing)]

-----------------------------------------------------------------------------
(* Filesystem source (fs.rs), as the engine sees it: the directory tree    *)
(* under base belongs to the host, so a call answers with any of the       *)
(* results the host can give: a success, NotFound, or an error of another  *)
(* kind (PermissionDenied stands for those).                               *)

FsSource(read_only) == [kind |-> "fs", read_only |-> read_only]

\* The result of File::open on the file, or on its backup after NotFound.
FsOpen(src, path) ==
  {Ok("host"), Err("NotFound"), Err("PermissionDenied")}

\* The result of read_dir, its entries filtered and renamed.
FsLs(src, path) ==
  {Ok(<< <<"b">> >>), Err("NotFound"), Err("PermissionDenied")}

\* ReadOnlyFilesystem before anything is touched when read_only; otherwise
\* the result of the staged write and the two renames.
FsUpdate(src, path, data) ==
  IF src.read_only THEN {Err("ReadOnlyFilesystem")}
  ELSE {Ok(""), Err("NotFound"), Err("PermissionDenied")}

-----------------------------------------------------------------------------
(* VFSSource: dispatch to the mounted source                               *)

SourceOpen(src, path) ==
  IF src.kind = "rom" THEN {RomOpen(src.root, path)} ELSE FsOpen(src, path)

SourceLs(src, path) ==
  IF src.kind = "rom" THEN {RomLs(src.root, path)} ELSE FsLs(src, path)

SourceUpdate(src, path, data) ==
  IF src.kind = "rom" THEN {RomUpdate(src.root, path, data)}
  ELSE FsUpdate(src, path, data)

-----------------------------------------------------------------------------
(* Union-mount engine (vfs.rs; data.rs is the same code with async calls)  *)

Mount(point, source) == [point |-> point, source |-> source]

Call(i, suffix, o) == [mount |-> i, path |-> suffix, result |-> o]

Run(result, from, calls) == [result |-> result, from |-> from, calls |-> calls]

\* this.mounts.iter(): oldest first.
iter(n) == [k \in 1..n |-> k]

\* The order of iter() where rev() was meant.
rev_forgotten(n) == [k \in 1..n |-> k]

\* this.mounts.iter().rev(): newest first.
rev(n) == [k \in 1..n |-> n + 1 - k]

\* VFS::mount without its first check.
VFSMountUnchecked(ms, point, source) ==
  IF ~is_directory(point)
  THEN [result |-> Err("NotADirectory"), mounts |-> ms]
  ELSE [result |-> Ok(""), mounts |-> Append(ms, Mount(point, source))]

\* VFS::mount: the result and the table afterwards.
VFSMount(ms, point, source) ==
  IF ~is_absolute(point)
  THEN [result |-> Misuse("attempt to mount at a non-absolute path"),
        mounts |-> ms]
  ELSE IF ~is_directory(point)
       THEN [result |-> Err("NotADirectory"), mounts |-> ms]
  ELSE [result |-> Ok(""), mounts |-> Append(ms, Mount(point, source))]

\* Every error makes the loop go on.
OpenContinuesOnAnyError(o) == o.kind # "Ok"

\* Err(x) if x.kind() == ErrorKind::NotFound => continue
OpenContinues(o) == o.kind = "NotFound"

RECURSIVE OpenFrom(_, _, _)
\* The loop of VFS::open over the mounts still to visit: every run it can
\* make, with the calls made to sources along the way.
OpenFrom(ms, path, order) ==
  IF order = <<>> THEN {Run(Err("NotFound"), 0, <<>>)}
  ELSE LET i == Head(order)
           w == with_prefix_absolute(path, ms[i].point)
       IN IF w.tag # "Some" THEN OpenFrom(ms, path, Tail(order))
          ELSE UNION {
                 IF o.kind = "Ok" THEN {Run(o, i, <<Call(i, w.val, o)>>)}
                 ELSE IF OpenContinues(o)
                 THEN {[r EXCEPT !.calls = <<Call(i, w.val, o)>> \o @] :
                         r \in OpenFrom(ms, path, Tail(order))}
                 ELSE {Run(o, i, <<Call(i, w.val, o)>>)}
                 : o \in SourceOpen(ms[i].source, w.val)}

\* VFS::open
VFSOpen(ms, path) ==
  IF ~is_absolute(path)
  THEN {Run(Misuse("attempt to open a non-absolute path"), 0, <<>>)}
  ELSE IF is_directory(path) THEN {Run(Err("IsADirectory"), 0, <<>>)}
  ELSE OpenFrom(ms, path, rev(Len(ms)))

\* NotFound makes the loop go on as well.
UpdateContinuesOnNotFound(o) == o.kind \in {"ReadOnlyFilesystem", "NotFound"}

\* Err(x) if x.kind() == ErrorKind::ReadOnlyFilesystem => continue
UpdateContinues(o) == o.kind = "ReadOnlyFilesystem"

RECURSIVE UpdateFrom(_, _, _, _)
UpdateFrom(ms, path, data, order) ==
  IF order = <<>> THEN {Run(Err("ReadOnlyFilesystem"), 0, <<>>)}
  ELSE LET i == Head(order)
           w == with_prefix_absolute(path, ms[i].point)
       IN IF w.tag # "Some" THEN UpdateFrom(ms, path, data, Tail(order))
          ELSE UNION {
                 IF UpdateContinues(o)
                 THEN {[r EXCEPT !.calls = <<Call(i, w.val, o)>> \o @] :
                         r \in UpdateFrom(ms, path, data, Tail(order))}
                 ELSE {Run(o, i, <<Call(i, w.val, o)>>)}
                 : o \in SourceUpdate(ms[i].source, w.val, data)}

\* VFS::update
VFSUpdate(ms, path, data) ==
  IF ~is_absolute(path)
  THEN {Run(Misuse("attempt to open a non-absolute path"), 0, <<>>)}
  ELSE IF is_directory(path) THEN {Run(Err("IsADirectory"), 0, <<>>)}
  ELSE UpdateFrom(ms, path, data, rev(Len(ms)))

\* The comparator handed to sort_by.
LsCompare(a, b) ==
  IF is_directory(a) /\ b = SubSeq(a, 1, Len(a) - 1) THEN "Less"
  ELSE IF is_directory(b) /\ a = SubSeq(b, 1, Len(b) - 1) THEN "Greater"
  ELSE StrCmp(a, b)

is_less(a, b) == LsCompare(a, b) = "Less"

RECURSIVE insert_tail(_, _)
\* Put x, which followed the sorted run v, in its place in it.
insert_tail(v, x) ==
  IF v = <<>> \/ ~is_less(x, v[Len(v)]) THEN Append(v, x)
  ELSE Append(insert_tail(SubSeq(v, 1, Len(v) - 1), x), v[Len(v)])

RECURSIVE insert_head(_, _)
\* Put x, which preceded the sorted run v, in its place in it.
insert_head(x, v) ==
  IF v = <<>> \/ ~is_less(Head(v), x) THEN <<x>> \o v
  ELSE <<Head(v)>> \o insert_head(x, Tail(v))

RECURSIVE sort_left(_)
sort_left(v) ==
  IF v = <<>> THEN <<>>
  ELSE insert_tail(sort_left(SubSeq(v, 1, Len(v) - 1)), v[Len(v)])

RECURSIVE sort_right(_)
sort_right(v) ==
  IF v = <<>> THEN <<>> ELSE insert_head(Head(v), sort_right(Tail(v)))

\* result.sort_by(..): a stable sort, which for a slice this short is an
\* insertion sort, growing the sorted run from the left or from the right
\* depending on the standard library.  The two agree whenever the comparator
\* is a total order on the entries; when it is not, the order is unspecified
\* and each is a possible outcome.
sort_by(v) == {sort_left(v), sort_right(v)}

\* The closure handed to dedup_by: next is dropped when it returns true.
same_bucket(next, first) ==
  \/ first = next
  \/ /\ is_directory(first) /\ ~is_directory(next)
     /\ SubSeq(first, 1, Len(first) - 1) = next

RECURSIVE dedup_from(_, _)
dedup_from(kept, rest) ==
  IF rest = <<>> THEN kept
  ELSE IF same_bucket(Head(rest), kept[Len(kept)])
       THEN dedup_from(kept, Tail(rest))
       ELSE dedup_from(Append(kept, Head(rest)), Tail(rest))

\* result.dedup_by(..)
dedup_by(v) == IF v = <<>> THEN <<>> ELSE dedup_from(<<Head(v)>>, Tail(v))

\* The listing of the source replaces what was gathered.
LsReplace(result, res) == res

\* result.append(&mut res)
LsAppend(result, res) == result \o res

\* The mounted-on directory is not added.
LsAscentForgotten(st, prefix, path) == st

\* The second match of the loop body: the mount point lies below path.
LsAscent(st, prefix, path) ==
  LET u == with_prefix_absolute(prefix, path)
  IN IF u.tag = "Some" /\ components(u.val) # <<>>
     THEN [st EXCEPT
             !.result = Append(@, make_file_into_dir(Head(components(u.val)))),
             !.any_succeeded = TRUE]
     ELSE st

RECURSIVE LsFrom(_, _, _, _)
\* The loop of VFS::ls over the mounts still to visit, from the locals st:
\* every state of the locals it can end in.
LsFrom(ms, path, order, st) ==
  IF order = <<>> THEN {st}
  ELSE LET i == Head(order)
           prefix == ms[i].point
           w == with_prefix_absolute(path, prefix)
       IN IF w.tag # "Some"
          THEN LsFrom(ms, path, Tail(order), LsAscent(st, prefix, path))
          ELSE UNION {
                 LET st1 == [st EXCEPT !.calls = Append(@, Call(i, w.val, o))]
                 IN IF o.kind = "Ok"
                    THEN LsFrom(ms, path, Tail(order),
                           LsAscent([st1 EXCEPT !.result = LsAppend(@, o.val),
                                                !.any_succeeded = TRUE],
                                    prefix, path))
                    ELSE IF o.kind = "NotFound"
                    THEN LsFrom(ms, path, Tail(order), st1)
                    ELSE IF o.kind = "NotADirectory"
                    THEN LsFrom(ms, path, Tail(order),
                           [st1 EXCEPT !.failed_with_not_dir = TRUE])
                    ELSE {[st1 EXCEPT !.err = Some(o)]}
                 : o \in SourceLs(ms[i].source, w.val)}

\* The flag is not looked at.
LsFailureNotFound(failed_with_not_dir) == Err("NotFound")

\* if !any_succeeded { .. }
LsFailure(failed_with_not_dir) ==
  IF failed_with_not_dir THEN Err("NotADirectory") ELSE Err("NotFound")

\* VFS::ls
VFSLs(ms, path) ==
  IF ~is_absolute(path)
  THEN {Run(Misuse("attempt to list a non-absolute path"), 0, <<>>)}
  ELSE IF ~is_directory(path)
  THEN {Run(Misuse("attempt to list a file"), 0, <<>>)}
  ELSE UNION {
         IF st.err.tag = "Some" THEN {Run(st.err.val, 0, st.calls)}
         ELSE IF ~st.any_succeeded
         THEN {Run(LsFailure(st.failed_with_not_dir), 0, st.calls)}
         ELSE {Run(Ok(dedup_by(sorted)), 0, st.calls) :
                 sorted \in sort_by(st.result)}
         : st \in LsFrom(ms, path, iter(Len(ms)),
                         [result |-> <<>>, any_succeeded |-> FALSE,
                          failed_with_not_dir |-> FALSE, calls |-> <<>>,
                          err |-> None])}

-----------------------------------------------------------------------------
(* Inputs                                                                  *)

\* Two listings in the manner of trees A and C of the crate documentation:
\* a file /a next to a directory /b/ in one, a directory /a/ in the other;
\* the first also holds a file whose name extends "a" with a character
\* ordered before "/".
ListingA ==
  << [path |-> <<"/", "b", "/">>, data |-> ""],
     [path |-> <<"/", "b", "/", "a">>, data |-> "A:/b/a"],
     [path |-> <<"/", "a">>, data |-> "A:/a"],
     [path |-> <<"/", "a", "-">>, data |-> "A:/a-"] >>

ListingC ==
  << [path |-> <<"/", "a", "/">>, data |-> ""],
     [path |-> <<"/", "a", "/", "b">>, data |-> "C:/a/b"] >>

SourceA == RomSource(ListingA)
SourceC == RomSource(ListingC)

Sources == {SourceA, SourceC, FsSource(TRUE), FsSource(FALSE)}

\* Two mount points, the root and a directory two levels below it, and three
\* paths that are not mount points: the empty path, a file path and a
\* relative directory path.
MountPoints ==
  { <<"/">>, <<"/", "b", "/", "a", "/">>,
    <<>>, <<"/", "a">>, <<"b", "/">> }

FilePaths ==
  { <<"/", "a">>, <<"/", "b", "/", "a">>, <<"/", "a", "/", "b">>,
    <<"/", "b", "/", "a", "/", "b">> }

DirPaths ==
  { <<"/">>, <<"/", "a", "/">>, <<"/", "b", "/">>,
    <<"/", "b", "/", "a", "/">> }

\* What a caller may hand to open, update and ls: absolute file and directory
\* paths, and two relative paths.
RequestPaths == FilePaths \cup DirPaths \cup { <<>>, <<"a">> }

NewData == "new"

-----------------------------------------------------------------------------
(* State machine                                                           *)

Op(op, path, arg, run) ==
  [op |-> op, path |-> path, arg |-> arg,
   result |-> run.result, from |-> run.from, calls |-> run.calls]

\* No call has been made, or the result of the last one has been taken.
Idle == Op("idle", <<>>, "", Run(Ok(""), 0, <<>>))

\* The outcome of a call on a path: the path it was made on, its argument,
\* what it returned and the buffer afterwards.
PathOp(op, self, moar, result, after) ==
  [op |-> op, self |-> self, moar |-> moar, result |-> result, after |-> after]

PathIdle == PathOp("idle", <<>>, <<>>, Ok(<<>>), <<>>)

\* The threads that hold clones of the engine: one that mounts, two that
\* open, list and update.
Mounters == {"m1"}
Readers == {"r1", "r2"}
Clones == Mounters \cup Readers

\* The locals of VFS::ls.
LsLocals(result, any_succeeded, failed_with_not_dir) ==
  [result |-> result, any_succeeded |-> any_succeeded,
   failed_with_not_dir |-> failed_with_not_dir]

\* A thread that is in no call.
ThreadIdle ==
  [pc |-> "idle", op |-> "none", path |-> <<>>, source |-> FsSource(TRUE),
   floor |-> 0, snap |-> <<>>, n |-> 0, pos |-> 0,
   st |-> LsLocals(<<>>, FALSE, FALSE), result |-> [kind |-> "none"]]

\* RwLock::new: no guard is out.
Unlocked == [writer |-> "none", readers |-> {}]

\* An in-memory source in the making: the entries Source::new has gone
\* through, the tree it has so far (or the panic that ended it), and the last
\* call made on the source.
RomCall(op, path, result) == [op |-> op, path |-> path, result |-> result]

RomIdle == RomCall("idle", <<>>, Ok(<<>>))

RomState(listing, root, call) ==
  [listing |-> listing, root |-> root, call |-> call]

\* let mut root = Node::Dir(vec![])
RomUnbuilt == RomState(<<>>, Dir(<<>>), RomIdle)

\* The directory of a filesystem source, for one file X of it: the name of
\* X, of its backup and of the file a new version is staged in.
X == <<"a">>
Backup == X \o <<"~">>
Staged == X \o <<"^">>

FsNames == {X, Backup, Staged}

\* A name that is not in the directory has "none" for contents; "v0" is
\* what X holds at first; "part" is a file created or truncated whose data
\* has not all been written.
NoFiles == [f \in FsNames |-> "none"]

\* The filesystem source and its directory: whether Source::new has run and
\* with which read_only; the files; the data of a write handed to a file and
\* not written yet; where the running update is (0: none runs), what it
\* writes, what open gave before it, whether X was there when it began and
\* how many of its steps are done; how the last update ended; the updates
\* begun; the last open or ls.
DiskInit ==
  [made |-> FALSE, read_only |-> FALSE,
   files |-> [NoFiles EXCEPT ![X] = "v0"], pending |-> NoFiles,
   pc |-> 0, data |-> "none", old |-> Err("NotFound"), began |-> FALSE,
   steps |-> 0, last |-> "none", n |-> 0,
   call |-> RomIdle]

\* VFS::new, and no path made yet.
Init ==
  /\ mounts = <<>>
  /\ lastOp = Idle
  /\ pathOp = PathIdle
  /\ lock = Unlocked
  /\ threads = [t \in Clones |-> ThreadIdle]
  /\ rom = RomUnbuilt
  /\ disk = DiskInit

DoMount(point, source) ==
  LET r == VFSMount(mounts, point, source)
  IN /\ lastOp = Idle
     /\ Len(r.mounts) <= MaxMounts
     /\ mounts' = r.mounts
     /\ lastOp' = Op("mount", point, source, Run(r.result, 0, <<>>))
     /\ UNCHANGED <<pathOp, lock, threads, rom, disk>>

DoOpen(path) ==
  /\ lastOp = Idle
  /\ \E run \in VFSOpen(mounts, path) : lastOp' = Op("open", path, "", run)
  /\ UNCHANGED <<mounts, pathOp, lock, threads, rom, disk>>

DoLs(path) ==
  /\ lastOp = Idle
  /\ \E run \in VFSLs(mounts, path) : lastOp' = Op("ls", path, "", run)
  /\ UNCHANGED <<mounts, pathOp, lock, threads, rom, disk>>

DoUpdate(path, data) ==
  /\ lastOp = Idle
  /\ \E run \in VFSUpdate(mounts, path, data) :
        lastOp' = Op("update", path, data, run)
  /\ UNCHANGED <<mounts, pathOp, lock, threads, rom, disk>>

\* The caller takes the result of its call.
Return ==
  /\ lastOp # Idle
  /\ lastOp' = Idle
  /\ UNCHANGED <<mounts, pathOp, lock, threads, rom, disk>>

Next ==
  \/ \E point \in MountPoints, source \in Sources : DoMount(point, source)
  \/ \E path \in RequestPaths : DoOpen(path)
  \/ \E path \in RequestPaths : DoLs(path)
  \/ \E path \in RequestPaths : DoUpdate(path, NewData)
  \/ Return

Spec == Init /\ [][Next]_vars

-----------------------------------------------------------------------------
(* Paths on their own: texts are validated, and the paths they give are    *)
(* joined, shortened and examined.                                         *)

\* A separator, a dot, a letter and a precomposed letter.
PathChars == {"/", ".", "a", "E"}

Strings(n) == UNION {[1..k -> PathChars] : k \in 0..n}

\* The paths try_from_str makes of the texts of at most n characters.
Paths(n) ==
  {try_from_str(t).val : t \in {u \in Strings(n) : try_from_str(u).kind = "Ok"}}

PathInputs == Paths(MaxPathLen)

DoTryFromStr ==
  /\ pathOp.op = "idle"
  /\ \E s \in Strings(MaxLen) :
        pathOp' = PathOp("try_from_str", s, <<>>, try_from_str(s), s)
  /\ UNCHANGED <<mounts, lastOp, lock, threads, rom, disk>>

\* The arguments of a join: the paths, and the relative ones behind one more
\* "../".
JoinArguments ==
  PathInputs \cup
    {try_from_str(<<".", ".", "/">> \o p).val :
       p \in {q \in PathInputs : /\ ~is_absolute(q)
                                  /\ try_from_str(<<".", ".", "/">> \o q).kind
                                       = "Ok"}}

DoTryJoin ==
  /\ pathOp.op = "idle"
  /\ \E self \in PathInputs, moar \in JoinArguments :
        LET b == try_join(self, moar)
        IN pathOp' = PathOp("try_join", self, moar, b.result, b.self)
  /\ UNCHANGED <<mounts, lastOp, lock, threads, rom, disk>>

DoParent ==
  /\ pathOp.op = "idle"
  /\ \E p \in PathInputs : pathOp' = PathOp("parent", p, <<>>, parent(p), p)
  /\ UNCHANGED <<mounts, lastOp, lock, threads, rom, disk>>

DoUpOneLevel ==
  /\ pathOp.op = "idle"
  /\ \E p \in PathInputs :
        LET b == up_one_level(p)
        IN pathOp' = PathOp("up_one_level", p, <<>>, b.result, b.self)
  /\ UNCHANGED <<mounts, lastOp, lock, threads, rom, disk>>

DoExtension ==
  /\ pathOp.op = "idle"
  /\ \E p \in PathInputs :
        pathOp' = PathOp("extension", p, <<>>, extension(p), p)
  /\ UNCHANGED <<mounts, lastOp, lock, threads, rom, disk>>

DoWithPrefixAbsolute ==
  /\ pathOp.op = "idle"
  /\ \E self \in PathInputs, other \in PathInputs :
        pathOp' = PathOp("with_prefix_absolute", self, other,
                         with_prefix_absolute(self, other), self)
  /\ UNCHANGED <<mounts, lastOp, lock, threads, rom, disk>>

\* A literal is compiled.
DoLiteral ==
  /\ pathOp.op = "idle"
  /\ \E s \in Strings(MaxLen) : pathOp' = PathOp("p", s, <<>>, p_literal(s), s)
  /\ UNCHANGED <<mounts, lastOp, lock, threads, rom, disk>>

\* The caller takes the result of its call.
PathReturn ==
  /\ pathOp.op # "idle"
  /\ pathOp' = PathIdle
  /\ UNCHANGED <<mounts, lastOp, lock, threads, rom, disk>>

NextPath ==
  \/ DoTryFromStr
  \/ DoTryJoin
  \/ DoParent
  \/ DoUpOneLevel
  \/ DoExtension
  \/ DoWithPrefixAbsolute
  \/ DoLiteral
  \/ PathReturn

SpecPath == Init /\ [][NextPath]_vars

-----------------------------------------------------------------------------
(* The in-memory source on its own: Source::new goes through a listing     *)
(* entry by entry, and the source it has built is opened and listed.       *)

MaxListing == 3

Entry(path, data) == [path |-> path, data |-> data]

\* What a listing may hold: files and directories at the root and below it,
\* a path both as a file and as a directory, a file with two contents, and
\* the entries Source::new refuses by themselves (a relative path, the root,
\* a directory with data).
RomEntries ==
  { Entry(<<"/", "a">>, "x"), Entry(<<"/", "a">>, "y"),
    Entry(<<"/", "a", "/">>, ""),
    Entry(<<"/", "b", "/">>, ""),
    Entry(<<"/", "a", "/", "b">>, "x"),
    Entry(<<"/", "a", "/", "b", "/">>, ""),
    Entry(<<"/", "b", "/", "a">>, "x"),
    Entry(<<"/", "a", "/", "b", "/", "a">>, "x"),
    Entry(<<"a">>, "x"), Entry(<<"/">>, ""),
    Entry(<<"/", "b", "/">>, "x") }

\* The paths asked of the built source: those of the entries and "/".
RomRequests == {e.path : e \in RomEntries}

\* One turn of the for loop of Source::new.
RomAdd(e) ==
  /\ rom.call.op = "idle"
  /\ rom.root.type # "Panic"
  /\ Len(rom.listing) < MaxListing
  /\ rom' = RomState(Append(rom.listing, e), RomBuild(rom.root, <<e>>),
                     RomIdle)
  /\ UNCHANGED <<mounts, lastOp, pathOp, lock, threads, disk>>

DoRomOpen(path) ==
  /\ rom.call.op = "idle"
  /\ rom.root.type # "Panic"
  /\ rom' = [rom EXCEPT !.call = RomCall("open", path,
                                         RomOpen(rom.root, path))]
  /\ UNCHANGED <<mounts, lastOp, pathOp, lock, threads, disk>>

DoRomLs(path) ==
  /\ rom.call.op = "idle"
  /\ rom.root.type # "Panic"
  /\ rom' = [rom EXCEPT !.call = RomCall("ls", path, RomLs(rom.root, path))]
  /\ UNCHANGED <<mounts, lastOp, pathOp, lock, threads, disk>>

RomReturn ==
  /\ rom.call.op # "idle"
  /\ rom' = [rom EXCEPT !.call = RomIdle]
  /\ UNCHANGED <<mounts, lastOp, pathOp, lock, threads, disk>>

NextRom ==
  \/ \E e \in RomEntries : RomAdd(e)
  \/ \E path \in RomRequests : DoRomOpen(path)
  \/ \E path \in RomRequests : DoRomLs(path)
  \/ RomReturn

SpecRom == Init /\ [][NextRom]_vars

-----------------------------------------------------------------------------
(* The filesystem source on its own (fs.rs): one file of its directory is  *)
(* updated, opened and listed, and the process may crash at any point.     *)

MaxUpdates == 2

FsData == {"d1", "d2"}

\* File::open(X), and File::open(X~) when X is not found.
DiskOpen(files) ==
  IF files[X] # "none" THEN Ok(files[X])
  ELSE IF files[Backup] # "none" THEN Ok(files[Backup])
  ELSE Err("NotFound")

\* The body of the while loop of ls for one name of the directory: nothing
\* for a name that is skipped, the path pushed otherwise.
LsEntry(name) ==
  IF \/ ends_with(name, <<"^">>) \/ ends_with(name, <<"!">>)
     \/ ends_with(name, <<"~", "~">>)
  THEN <<>>
  ELSE LET filename == IF ends_with(name, <<"~">>) THEN pop(name) ELSE name
           made == try_from_str(filename)
       IN IF made.kind = "Ok" THEN <<made.val>> ELSE <<>>

RECURSIVE LsOf(_, _)
\* The entries pushed for the names of the directory in the order given.
LsOf(files, order) ==
  IF order = <<>> THEN <<>>
  ELSE (IF files[Head(order)] # "none" THEN LsEntry(Head(order)) ELSE <<>>)
         \o LsOf(files, Tail(order))

\* read_dir gives the names in an order of its own.
ReadDirOrders ==
  { <<X, Backup, Staged>>, <<Backup, X, Staged>>, <<Staged, Backup, X>> }

\* Source::ls of the directory, for each order read_dir may give.
DiskLs(files) == {Ok(LsOf(files, order)) : order \in ReadDirOrders}

\* rename(from, to): the file and a write in flight on it go to the new
\* name, and what was there is replaced.
Renamed(f, from, to) == [f EXCEPT ![to] = f[from], ![from] = "none"]

UpdateReturns(d, result) ==
  [d EXCEPT !.pc = 0, !.last = result]

\* Source::new
FsNew(read_only) ==
  /\ ~disk.made
  /\ disk' = [disk EXCEPT !.made = TRUE, !.read_only = read_only]
  /\ UNCHANGED <<mounts, lastOp, pathOp, lock, threads, rom>>

\* update is called: a read-only source returns ReadOnlyFilesystem at once.
FsUpdateCall(data) ==
  /\ disk.made
  /\ disk.pc = 0
  /\ disk.call.op = "idle"
  /\ disk.n < MaxUpdates
  /\ LET d == [disk EXCEPT !.n = @ + 1, !.data = data,
                            !.old = DiskOpen(disk.files),
                            !.began = disk.files[X] # "none",
                            !.steps = 0]
     IN disk' = IF disk.read_only THEN UpdateReturns(d, "Err")
                ELSE [d EXCEPT !.pc = 1, !.last = "none"]
  /\ UNCHANGED <<mounts, lastOp, pathOp, lock, threads, rom>>

\* X^ is created or truncated and the data is handed to it with write_all;
\* the file is dropped without a flush, so the write may still be in flight
\* when update goes on (tokio::fs::File). Or the host refuses, before the
\* file is touched or with a part of the data written.
FsWriteStaged ==
  /\ disk.pc = 1
  /\ \/ disk' = [disk EXCEPT !.files[Staged] = "part",
                              !.pending[Staged] = disk.data,
                              !.pc = 2, !.steps = 1]
     \/ disk' = UpdateReturns(disk, "Err")
     \/ disk' = UpdateReturns([disk EXCEPT !.files[Staged] = "part",
                                           !.pending[Staged] = "none"],
                              "Err")
  /\ UNCHANGED <<mounts, lastOp, pathOp, lock, threads, rom>>

\* A write in flight reaches its file.
FsWriteLands(f) ==
  /\ disk.pending[f] # "none"
  /\ disk.files[f] # "none"
  /\ disk' = [disk EXCEPT !.files[f] = disk.pending[f],
                          !.pending[f] = "none"]
  /\ UNCHANGED <<mounts, lastOp, pathOp, lock, threads, rom>>

\* let _ = remove_file(X~): the backup goes, or the host refuses and the
\* error is ignored.
FsRemoveBackup ==
  /\ disk.pc = 2
  /\ \/ disk' = [disk EXCEPT !.files[Backup] = "none",
                              !.pending[Backup] = "none",
                              !.pc = 3, !.steps = 2]
     \/ disk' = [disk EXCEPT !.pc = 3, !.steps = 2]
  /\ UNCHANGED <<mounts, lastOp, pathOp, lock, threads, rom>>

\* rename(X, X~)?: NotFound when X is not there, or the host refuses.
FsRenameToBackup ==
  /\ disk.pc = 3
  /\ \/ /\ disk.files[X] # "none"
        /\ disk' = [disk EXCEPT !.files = Renamed(@, X, Backup),
                                !.pending = Renamed(@, X, Backup),
                                !.pc = 4, !.steps = 3]
     \/ disk' = UpdateReturns(disk, "Err")
  /\ UNCHANGED <<mounts, lastOp, pathOp, lock, threads, rom>>

\* rename(X^, X), whose result is the result of update.
FsRenameStaged ==
  /\ disk.pc = 4
  /\ \/ disk' = UpdateReturns([disk EXCEPT !.files = Renamed(@, Staged, X),
                                           !.pending = Renamed(@, Staged, X),
                                           !.steps = 4], "Ok")
     \/ disk' = UpdateReturns(disk, "Err")
  /\ UNCHANGED <<mounts, lastOp, pathOp, lock, threads, rom>>

\* The process ends where it is, in an update or after one: the files stay
\* as they are and no write in flight is made any more.
FsCrash ==
  /\ disk.made
  /\ disk.pc > 0 \/ disk.last = "Ok"
  /\ disk.call.op = "idle"
  /\ disk' = [disk EXCEPT !.pc = 0, !.pending = NoFiles, !.last = "crash"]
  /\ UNCHANGED <<mounts, lastOp, pathOp, lock, threads, rom>>

DoFsOpen ==
  /\ disk.made
  /\ disk.pc = 0
  /\ disk.call.op = "idle"
  /\ disk' = [disk EXCEPT !.call = RomCall("open", X, DiskOpen(disk.files))]
  /\ UNCHANGED <<mounts, lastOp, pathOp, lock, threads, rom>>

DoFsLs ==
  /\ disk.made
  /\ disk.pc = 0
  /\ disk.call.op = "idle"
  /\ \E listed \in DiskLs(disk.files) :
        disk' = [disk EXCEPT !.call = RomCall("ls", <<"/">>, listed)]
  /\ UNCHANGED <<mounts, lastOp, pathOp, lock, threads, rom>>

FsReturn ==
  /\ disk.call.op # "idle"
  /\ disk' = [disk EXCEPT !.call = RomIdle]
  /\ UNCHANGED <<mounts, lastOp, pathOp, lock, threads, rom>>

NextFs ==
  \/ \E read_only \in BOOLEAN : FsNew(read_only)
  \/ \E data \in FsData : FsUpdateCall(data)
  \/ FsWriteStaged
  \/ \E f \in FsNames : FsWriteLands(f)
  \/ FsRemoveBackup
  \/ FsRenameToBackup
  \/ FsRenameStaged
  \/ FsCrash
  \/ DoFsOpen
  \/ DoFsLs
  \/ FsReturn

SpecFs == Init /\ [][NextFs]_vars

-----------------------------------------------------------------------------
(* The engine shared by threads: every method of VFS step by step, with    *)
(* the guards of the RwLock it takes (vfs.rs; data.rs in the same way,     *)
(* with the guards of its asynchronous RwLock).                            *)

\* The mounts asked for: the in-memory tree at the root, a filesystem source
\* below it, and a point that is refused.
ConcMounts ==
  { Mount(<<"/">>, SourceA),
    Mount(<<"/", "b", "/", "a", "/">>, FsSource(FALSE)),
    Mount(<<"b", "/">>, SourceA) }
ConcRequests ==
  { <<"open", <<"/", "b", "/", "a", "/", "b">>>>,
    <<"update", <<"/", "b", "/", "a", "/", "b">>>>,
    <<"ls", <<"/", "b", "/">>>>,
    <<"ls", <<"/", "a">>>> }

\* Every reader shares the lock, also with the writer.
read_admits_beside_writer == TRUE

\* RwLock::read blocks while a write guard is out.
read_admits == lock.writer = "none"

\* The writer does not wait for the readers.
write_admits_beside_readers == lock.writer = "none"

\* RwLock::write blocks while any guard is out.
write_admits == lock.writer = "none" /\ lock.readers = {}

\* The number of mounts that have returned success: every entry of the
\* table but the one whose mount still holds the write guard.
Returned ==
  Len(mounts) - Cardinality({t \in Mounters : threads[t].pc = "mount_unlock"})

\* The index the loop of the thread's method visits next.
NextIndex(th) ==
  IF th.op = "ls" THEN iter(th.n)[th.pos + 1] ELSE rev(th.n)[th.pos + 1]

\* The suffix handed to the source of the entry, if the entry claims the path.
Suffix(th) == with_prefix_absolute(th.path, mounts[NextIndex(th)].point)

\* VFS::mount up to the call of write(): the checks of the point.
CallMount(t, point, source) ==
  /\ threads[t].pc = "idle"
  /\ Len(mounts) < MaxMounts
  /\ threads' = [threads EXCEPT ![t] =
       IF ~is_absolute(point)
       THEN [ThreadIdle EXCEPT !.pc = "done", !.op = "mount", !.path = point,
               !.result = Misuse("attempt to mount at a non-absolute path")]
       ELSE IF ~is_directory(point)
       THEN [ThreadIdle EXCEPT !.pc = "done", !.op = "mount", !.path = point,
               !.result = Err("NotADirectory")]
       ELSE [ThreadIdle EXCEPT !.pc = "mount_write", !.op = "mount",
               !.path = point, !.source = source]]
  /\ UNCHANGED <<mounts, lock, lastOp, pathOp, rom, disk>>

\* self.inner.write()
WriteLock(t) ==
  /\ threads[t].pc = "mount_write"
  /\ write_admits
  /\ lock' = [lock EXCEPT !.writer = t]
  /\ threads' = [threads EXCEPT ![t].pc = "mount_push"]
  /\ UNCHANGED <<mounts, lastOp, pathOp, rom, disk>>

\* this.mounts.push((point, source))
Push(t) ==
  /\ threads[t].pc = "mount_push"
  /\ mounts' = Append(mounts, Mount(threads[t].path, threads[t].source))
  /\ threads' = [threads EXCEPT ![t].pc = "mount_unlock"]
  /\ UNCHANGED <<lock, lastOp, pathOp, rom, disk>>

\* Ok(()), the write guard being dropped.
WriteUnlock(t) ==
  /\ threads[t].pc = "mount_unlock"
  /\ lock' = [lock EXCEPT !.writer = "none"]
  /\ threads' = [threads EXCEPT ![t] =
                   [ThreadIdle EXCEPT !.pc = "done", !.op = "mount",
                                      !.path = threads[t].path,
                                      !.result = Ok("")]]
  /\ UNCHANGED <<mounts, lastOp, pathOp, rom, disk>>

\* VFS::open, VFS::update and VFS::ls up to the call of read(): the checks
\* of the path.
CallTraversal(t, op, path) ==
  /\ threads[t].pc = "idle"
  /\ threads' = [threads EXCEPT ![t] =
       IF ~is_absolute(path)
       THEN [ThreadIdle EXCEPT !.pc = "done", !.op = op, !.path = path,
               !.result = Misuse(IF op = "ls"
                                 THEN "attempt to list a non-absolute path"
                                 ELSE "attempt to open a non-absolute path")]
       ELSE IF op = "ls" /\ ~is_directory(path)
       THEN [ThreadIdle EXCEPT !.pc = "done", !.op = op, !.path = path,
               !.result = Misuse("attempt to list a file")]
       ELSE IF op # "ls" /\ is_directory(path)
       THEN [ThreadIdle EXCEPT !.pc = "done", !.op = op, !.path = path,
               !.result = Err("IsADirectory")]
       ELSE [ThreadIdle EXCEPT !.pc = "read", !.op = op, !.path = path,
               !.floor = Returned]]
  /\ UNCHANGED <<mounts, lock, lastOp, pathOp, rom, disk>>

\* self.inner.read(), and the iterator made over this.mounts.
ReadLock(t) ==
  /\ threads[t].pc = "read"
  /\ read_admits
  /\ lock' = [lock EXCEPT !.readers = @ \cup {t}]
  /\ threads' = [threads EXCEPT ![t].pc = "walk", ![t].n = Len(mounts),
                                ![t].snap = mounts]
  /\ UNCHANGED <<mounts, lastOp, pathOp, rom, disk>>

\* The loop takes its next entry: the source is called if the entry claims
\* the path; if not, ls adds the entry's component below the path, if any.
Visit(t) ==
  LET th == threads[t]
  IN /\ th.pc = "walk"
     /\ th.pos < th.n
     /\ threads' = [threads EXCEPT ![t] =
          IF Suffix(th).tag = "Some" THEN [th EXCEPT !.pc = "callback"]
          ELSE IF th.op = "ls"
          THEN [th EXCEPT !.pos = @ + 1,
                  !.st = LsAscent(@, mounts[NextIndex(th)].point, th.path)]
          ELSE [th EXCEPT !.pos = @ + 1]]
     /\ UNCHANGED <<mounts, lock, lastOp, pathOp, rom, disk>>

\* The thread leaves its method with a result, its read guard and its
\* locals being dropped.
Leave(t, th, result) ==
  /\ threads' = [threads EXCEPT ![t] =
                   [ThreadIdle EXCEPT !.pc = "done", !.op = th.op,
                                      !.path = th.path, !.result = result]]
  /\ lock' = [lock EXCEPT !.readers = @ \ {t}]

\* The loop goes on to the entry after the one it has called.
GoOn(t, th) ==
  /\ threads' = [threads EXCEPT ![t] = [th EXCEPT !.pc = "walk", !.pos = @ + 1]]
  /\ UNCHANGED lock

\* The source called by open returns.
OpenCallback(t) ==
  LET th == threads[t]
  IN /\ th.pc = "callback"
     /\ th.op = "open"
     /\ \E o \in SourceOpen(mounts[NextIndex(th)].source, Suffix(th).val) :
          IF o.kind # "Ok" /\ OpenContinues(o) THEN GoOn(t, th)
          ELSE Leave(t, th, o)
     /\ UNCHANGED <<mounts, lastOp, pathOp, rom, disk>>

\* The source called by update returns.
UpdateCallback(t) ==
  LET th == threads[t]
  IN /\ th.pc = "callback"
     /\ th.op = "update"
     /\ \E o \in SourceUpdate(mounts[NextIndex(th)].source, Suffix(th).val,
                               NewData) :
          IF UpdateContinues(o) THEN GoOn(t, th) ELSE Leave(t, th, o)
     /\ UNCHANGED <<mounts, lastOp, pathOp, rom, disk>>

\* The source called by ls returns.
LsCallback(t) ==
  LET th == threads[t]
      prefix == mounts[NextIndex(th)].point
  IN /\ th.pc = "callback"
     /\ th.op = "ls"
     /\ \E o \in SourceLs(mounts[NextIndex(th)].source, Suffix(th).val) :
          IF o.kind = "Ok"
          THEN GoOn(t, [th EXCEPT !.st =
                 LsAscent([@ EXCEPT !.result = LsAppend(@, o.val),
                                    !.any_succeeded = TRUE],
                          prefix, th.path)])
          ELSE IF o.kind = "NotFound" THEN GoOn(t, th)
          ELSE IF o.kind = "NotADirectory"
          THEN GoOn(t, [th EXCEPT !.st.failed_with_not_dir = TRUE])
          ELSE Leave(t, th, o)
     /\ UNCHANGED <<mounts, lastOp, pathOp, rom, disk>>

\* The loop is over: what the method returns after it.
EndWalk(t) ==
  LET th == threads[t]
  IN /\ th.pc = "walk"
     /\ th.pos = th.n
     /\ IF th.op = "open" THEN Leave(t, th, Err("NotFound"))
        ELSE IF th.op = "update" THEN Leave(t, th, Err("ReadOnlyFilesystem"))
        ELSE IF ~th.st.any_succeeded
        THEN Leave(t, th, LsFailure(th.st.failed_with_not_dir))
        ELSE \E sorted \in sort_by(th.st.result) :
               Leave(t, th, Ok(dedup_by(sorted)))
     /\ UNCHANGED <<mounts, lastOp, pathOp, rom, disk>>

\* The caller takes the result of its call.
ThreadReturn(t) ==
  /\ threads[t].pc = "done"
  /\ threads' = [threads EXCEPT ![t] = ThreadIdle]
  /\ UNCHANGED <<mounts, lock, lastOp, pathOp, rom, disk>>

NextConc ==
  \/ \E t \in Mounters, m \in ConcMounts : CallMount(t, m.point, m.source)
  \/ \E t \in Mounters : WriteLock(t)
  \/ \E t \in Mounters : Push(t)
  \/ \E t \in Mounters : WriteUnlock(t)
  \/ \E t \in Readers, rq \in ConcRequests : CallTraversal(t, rq[1], rq[2])
  \/ \E t \in Readers : ReadLock(t)
  \/ \E t \in Readers : Visit(t)
  \/ \E t \in Readers : OpenCallback(t)
  \/ \E t \in Readers : UpdateCallback(t)
  \/ \E t \in Readers : LsCallback(t)
  \/ \E t \in Readers : EndWalk(t)
  \/ \E t \in Clones : ThreadReturn(t)

SpecConc == Init /\ [][NextConc]_vars

\* Fair scheduling: a thread that can take its next step takes it, every
\* source callback returns, and a thread that asks for the lock gets it if
\* the lock can be granted to it again and again. Calls are made or not, as
\* the callers please.
FairConc ==
  /\ \A t \in Mounters :
        /\ SF_vars(WriteLock(t))
        /\ WF_vars(Push(t) \/ WriteUnlock(t))
  /\ \A t \in Readers :
        /\ SF_vars(ReadLock(t))
        /\ WF_vars(Visit(t) \/ OpenCallback(t) \/ UpdateCallback(t)
                      \/ LsCallback(t) \/ EndWalk(t))

\* For the calls that go on for ever: one source mounted at the root again
\* and again, and an open, an update and an ls that it claims.
LiveMounts == { Mount(<<"/">>, SourceA) }

LiveRequests ==
  { <<"open", <<"/", "a">>>>,
    <<"update", <<"/", "a">>>>,
    <<"ls", <<"/", "b", "/">>>> }

NextLive ==
  \/ \E t \in Mounters, m \in LiveMounts : CallMount(t, m.point, m.source)
  \/ \E t \in Mounters : WriteLock(t)
  \/ \E t \in Mounters : Push(t)
  \/ \E t \in Mounters : WriteUnlock(t)
  \/ \E t \in Readers, rq \in LiveRequests : CallTraversal(t, rq[1], rq[2])
  \/ \E t \in Readers : ReadLock(t)
  \/ \E t \in Readers : Visit(t)
  \/ \E t \in Readers : OpenCallback(t)
  \/ \E t \in Readers : UpdateCallback(t)
  \/ \E t \in Readers : LsCallback(t)
  \/ \E t \in Readers : EndWalk(t)
  \/ \E t \in Clones : ThreadReturn(t)

SpecLive == Init /\ [][NextLive]_vars /\ FairConc

-----------------------------------------------------------------------------
(* Vocabulary of the properties, in terms of components rather than text   *)

Elems(seq) == {seq[k] : k \in 1..Len(seq)}

\* The components of the directory p is in: its own when p is a directory
\* path, all but the last when p is a file path.
DirOf(p) ==
  IF is_directory(p) THEN components(p)
  ELSE SubSeq(components(p), 1, Len(components(p)) - 1)

\* The directory point is a component-wise prefix of p: p is that directory
\* or lies in it (the file /x is not in the directory /x/).
AtOrAbove(point, p) ==
  LET cp == components(point)
      c == DirOf(p)
  IN Len(cp) <= Len(c) /\ SubSeq(c, 1, Len(cp)) = cp

\* point lies strictly below the directory d.
StrictlyBelow(point, d) == AtOrAbove(d, point) /\ components(point) # components(d)

RECURSIVE JoinComps(_)
JoinComps(cs) ==
  IF cs = <<>> THEN <<>> ELSE <<"/">> \o Head(cs) \o JoinComps(Tail(cs))

\* p minus the mount prefix point: the absolute path of the components of p
\* beyond those of point, a directory path iff p is one.
Rest(point, p) ==
  LET cs == SubSeq(components(p), Len(components(point)) + 1,
                   Len(components(p)))
  IN IF cs = <<>> THEN <<"/">>
     ELSE IF is_directory(p) THEN JoinComps(cs) \o <<"/">> ELSE JoinComps(cs)

\* The component of point immediately below the directory d.
ChildBelow(point, d) == components(point)[Len(components(d)) + 1]

StripSlash(e) ==
  IF Len(e) > 0 /\ e[Len(e)] = "/" THEN SubSeq(e, 1, Len(e) - 1) ELSE e

IsFilePath(p) == Len(p) > 0 /\ p[1] = "/" /\ p[Len(p)] # "/"
IsDirPath(p) == Len(p) > 0 /\ p[1] = "/" /\ p[Len(p)] = "/"

\* The mounts that claim p, and the mounts a call of the last operation
\* reached.
Claiming(p) == {i \in 1..Len(mounts) : AtOrAbove(mounts[i].point, p)}
Called == {lastOp.calls[k].mount : k \in 1..Len(lastOp.calls)}
Answer(i) ==
  lastOp.calls[CHOOSE k \in 1..Len(lastOp.calls) : lastOp.calls[k].mount = i]
    .result

\* Every call went to a claiming mount, once, with p minus the mount prefix.
CallsWellFormed(p) ==
  /\ \A k \in 1..Len(lastOp.calls) :
        /\ lastOp.calls[k].mount \in Claiming(p)
        /\ lastOp.calls[k].path = Rest(mounts[lastOp.calls[k].mount].point, p)
  /\ \A k, l \in 1..Len(lastOp.calls) :
        lastOp.calls[k].mount = lastOp.calls[l].mount => k = l

-----------------------------------------------------------------------------
(* Properties                                                              *)

\* C1: after any sequence of successful mounts, open of an absolute file
\* path returns the result of the most recently mounted source, among the
\* mounts whose point is a component-wise prefix of the path, whose open does
\* not answer NotFound; every newer claiming source was asked and answered
\* NotFound, no older one is asked, each source is asked with the path minus
\* its mount prefix; when no mount claims the path or every claiming source
\* answers NotFound, open returns NotFound.
OpenNewestClaimWins ==
  (lastOp.op = "open" /\ IsFilePath(lastOp.path)) =>
    /\ CallsWellFormed(lastOp.path)
    /\ \A i \in Called :
          Answer(i) \in SourceOpen(mounts[i].source,
                                   Rest(mounts[i].point, lastOp.path))
    /\ IF \E i \in Called : Answer(i).kind # "NotFound"
       THEN /\ lastOp.from \in Called
            /\ Answer(lastOp.from).kind # "NotFound"
            /\ lastOp.result = Answer(lastOp.from)
            /\ \A i \in Claiming(lastOp.path) :
                  /\ i > lastOp.from => i \in Called /\ Answer(i).kind = "NotFound"
                  /\ i < lastOp.from => i \notin Called
       ELSE /\ lastOp.result.kind = "NotFound"
            /\ Called = Claiming(lastOp.path)

\* An open answered by an older mount after a newer claiming mount answered
\* NotFound.
OpenNewestClaimWinsWitness ==
  /\ lastOp.op = "open"
  /\ lastOp.result.kind = "Ok"
  /\ Len(lastOp.calls) >= 2
  /\ lastOp.from < Len(mounts)
  /\ mounts[lastOp.from].point # <<"/">>

\* C2: update visits the claiming mounts newest first, skips a mount only
\* when its update answers ReadOnlyFilesystem, and returns the answer of the
\* first mount that answers anything else without asking an older mount; it
\* returns ReadOnlyFilesystem when every claiming mount answers that or no
\* mount claims the path.  At most one source gets past its read-only check
\* in a call.
UpdateFirstWritableOnly ==
  (lastOp.op = "update" /\ IsFilePath(lastOp.path)) =>
    /\ CallsWellFormed(lastOp.path)
    /\ \A k, l \in 1..Len(lastOp.calls) :
          k < l => lastOp.calls[k].mount > lastOp.calls[l].mount
    /\ Cardinality({i \in Called : Answer(i).kind # "ReadOnlyFilesystem"}) <= 1
    /\ IF \E i \in Called : Answer(i).kind # "ReadOnlyFilesystem"
       THEN /\ lastOp.from \in Called
            /\ lastOp.result = Answer(lastOp.from)
            /\ lastOp.result.kind # "ReadOnlyFilesystem"
            /\ \A i \in Claiming(lastOp.path) :
                  /\ i > lastOp.from =>
                       i \in Called /\ Answer(i).kind = "ReadOnlyFilesystem"
                  /\ i < lastOp.from => i \notin Called
       ELSE /\ lastOp.result.kind = "ReadOnlyFilesystem"
            /\ Called = Claiming(lastOp.path)

\* An update that skipped a read-only mount and got NotFound from the next
\* one, with an older claiming mount left unasked.
UpdateFirstWritableOnlyWitness ==
  /\ lastOp.op = "update"
  /\ lastOp.result.kind = "NotFound"
  /\ Len(lastOp.calls) = 2
  /\ \E i \in Claiming(lastOp.path) :
        i < lastOp.from /\ mounts[i].source = FsSource(FALSE)

\* The names the last listing was made of: what the asked sources returned,
\* and the directory implied by every mount point strictly below the listed
\* directory.
SourceEntries ==
  UNION {Elems(Answer(i).val) : i \in {j \in Called : Answer(j).kind = "Ok"}}
PhantomEntries(d) ==
  {Append(ChildBelow(mounts[i].point, d), "/") :
     i \in {j \in 1..Len(mounts) : StrictlyBelow(mounts[j].point, d)}}
Contributed(d) == SourceEntries \cup PhantomEntries(d)

\* A source asked by the last listing answered with an error that is neither
\* NotFound nor NotADirectory.
OtherLsError(i) ==
  i \in Called /\ Answer(i).kind \notin {"Ok", "NotFound", "NotADirectory"}

\* C3: a successful listing is sorted in codepoint order, has no two equal
\* entries, and has no file entry X next to the directory entry X/, whatever
\* the other names returned by the sources.
LsSortedUniqueDirPreferring ==
  (lastOp.op = "ls" /\ lastOp.result.kind = "Ok") =>
    LET l == lastOp.result.val
    IN /\ \A k \in 1..(Len(l) - 1) : StrCmp(l[k], l[k + 1]) = "Less"
       /\ \A e \in Elems(l) : ~(is_directory(e) /\ StripSlash(e) \in Elems(l))

\* C4: the names of a successful listing, the trailing "/" ignored, are
\* those returned by the sources mounted at or above the directory (each
\* asked with the directory minus its mount prefix) whose list succeeded,
\* and the first component below the directory of every mount point strictly
\* below it; a name is listed as a directory iff a contributor gave it so.
LsIsTheUnion ==
  (lastOp.op = "ls" /\ lastOp.result.kind = "Ok") =>
    LET d == lastOp.path
        l == Elems(lastOp.result.val)
    IN /\ CallsWellFormed(d)
       /\ Called = Claiming(d)
       /\ {StripSlash(e) : e \in l} = {StripSlash(e) : e \in Contributed(d)}
       /\ \A e \in l \cup Contributed(d) :
             is_directory(e) => (e \in l <=> e \in Contributed(d))

\* A listing that merges what two sources returned with a phantom entry, one
\* of the names coming both as a file and as a directory.
LsIsTheUnionWitness ==
  /\ lastOp.op = "ls"
  /\ lastOp.result.kind = "Ok"
  /\ Cardinality({i \in Called : Answer(i).kind = "Ok"}) >= 2
  /\ PhantomEntries(lastOp.path) # {}
  /\ \E e \in Contributed(lastOp.path) :
        ~is_directory(e) /\ Append(e, "/") \in Contributed(lastOp.path)

\* C5 as stated: for every mount point and every proper ancestor directory
\* of it, the listing of the ancestor succeeds and has, as a directory entry,
\* the component of the mount point immediately below it.
PhantomAlwaysListed ==
  (lastOp.op = "ls" /\ IsDirPath(lastOp.path)) =>
    \A i \in 1..Len(mounts) :
       StrictlyBelow(mounts[i].point, lastOp.path) =>
         /\ lastOp.result.kind = "Ok"
         /\ Append(ChildBelow(mounts[i].point, lastOp.path), "/")
              \in Elems(lastOp.result.val)

\* C5, amended: the same unless a source mounted at or above the ancestor
\* answers its list with an error other than NotFound and NotADirectory;
\* the listing then returns that error.
PhantomListedUnlessSourceError ==
  (lastOp.op = "ls" /\ IsDirPath(lastOp.path)) =>
    \A i \in 1..Len(mounts) :
       StrictlyBelow(mounts[i].point, lastOp.path) =>
         IF \E j \in 1..Len(mounts) : OtherLsError(j)
         THEN \E j \in Called : OtherLsError(j) /\ lastOp.result = Answer(j)
         ELSE /\ lastOp.result.kind = "Ok"
              /\ Append(ChildBelow(mounts[i].point, lastOp.path), "/")
                   \in Elems(lastOp.result.val)

\* The listing of a directory two levels above a mount point, in which a
\* source holds a file named like the phantom directory and another source
\* answers NotADirectory or NotFound.
PhantomListedWitness ==
  /\ lastOp.op = "ls"
  /\ lastOp.result.kind = "Ok"
  /\ \E i \in 1..Len(mounts) :
        /\ StrictlyBelow(mounts[i].point, lastOp.path)
        /\ ChildBelow(mounts[i].point, lastOp.path) \in SourceEntries
  /\ \E j \in Called : Answer(j).kind \in {"NotFound", "NotADirectory"}

\* The in-memory source mounted as entry i holds, at the place p names, a
\* directory (a file).
HoldsDir(i, p) ==
  /\ i \in Claiming(p)
  /\ mounts[i].source.kind = "rom"
  /\ RomOpen(mounts[i].source.root, Rest(mounts[i].point, p)).kind
       = "IsADirectory"
HoldsFile(i, p) ==
  /\ i \in Claiming(p)
  /\ mounts[i].source.kind = "rom"
  /\ RomOpen(mounts[i].source.root, Rest(mounts[i].point, p)).kind = "Ok"

\* C6: when a mount holds the directory X/ and another mount holds the file
\* X at the same place, in whichever order they were mounted, open of the
\* file path X does not succeed with the contents of that file.
DirectoryShadowsFile ==
  (lastOp.op = "open" /\ IsFilePath(lastOp.path)) =>
    \A i, j \in 1..Len(mounts) :
       (i # j /\ HoldsDir(i, lastOp.path) /\ HoldsFile(j, lastOp.path)) =>
         ~(lastOp.result.kind = "Ok" /\ lastOp.from = j)

\* C7: when, during open, a claiming source answers with an error other
\* than NotFound, open returns that very error and asks no older mount.
OpenSurfacesSourceError ==
  lastOp.op = "open" =>
    \A k \in 1..Len(lastOp.calls) :
       lastOp.calls[k].result.kind \notin {"Ok", "NotFound"} =>
         /\ lastOp.result = lastOp.calls[k].result
         /\ k = Len(lastOp.calls)
         /\ \A i \in Called : i >= lastOp.calls[k].mount

\* An open that returned IsADirectory from an in-memory source although an
\* older claiming mount holds a file at that path.
OpenSurfacesSourceErrorWitness ==
  /\ lastOp.op = "open"
  /\ lastOp.result.kind = "IsADirectory"
  /\ lastOp.from > 0
  /\ \E j \in 1..Len(mounts) : j < lastOp.from /\ HoldsFile(j, lastOp.path)

\* A mount point strictly below the last listed directory added an entry.
PhantomAdded == PhantomEntries(lastOp.path) # {}

\* C8 as stated: the listing of a directory fails exactly when no source
\* list succeeded and no phantom entry was added; it then returns
\* NotADirectory if a claiming source answered NotADirectory, wherever in
\* the mount order, and NotFound otherwise.
LsFailsOnlyWhenNothingListed ==
  (lastOp.op = "ls" /\ IsDirPath(lastOp.path)) =>
    /\ lastOp.result.kind # "Ok" <=>
         ((\A i \in Called : Answer(i).kind # "Ok") /\ ~PhantomAdded)
    /\ lastOp.result.kind # "Ok" =>
         lastOp.result.kind =
           IF \E i \in Called : Answer(i).kind = "NotADirectory"
           THEN "NotADirectory" ELSE "NotFound"

\* C8, amended: the same for a listing in which no asked source answers
\* with an error other than NotFound and NotADirectory; such an error ends
\* the listing and is returned, whatever succeeded before.
LsFailsOnlyWhenNothingListedOrSourceError ==
  (lastOp.op = "ls" /\ IsDirPath(lastOp.path)) =>
    IF \E i \in Called : OtherLsError(i)
    THEN \E i \in Called : OtherLsError(i) /\ lastOp.result = Answer(i)
    ELSE /\ Called = Claiming(lastOp.path)
         /\ lastOp.result.kind # "Ok" <=>
              ((\A i \in Called : Answer(i).kind # "Ok") /\ ~PhantomAdded)
         /\ lastOp.result.kind # "Ok" =>
              lastOp.result.kind =
                IF \E i \in Called : Answer(i).kind = "NotADirectory"
                THEN "NotADirectory" ELSE "NotFound"

\* A listing that failed with NotADirectory, the source that said so being
\* followed in the mount order by one that answered NotFound.
LsFailsWitness ==
  /\ lastOp.op = "ls"
  /\ lastOp.result.kind = "NotADirectory"
  /\ Len(lastOp.calls) >= 2
  /\ lastOp.calls[1].result.kind = "NotADirectory"
  /\ lastOp.calls[Len(lastOp.calls)].result.kind = "NotFound"

\* C9: ls of an absolute file path returns NotADirectory, open and update of
\* an absolute directory path return IsADirectory, and no source is asked in
\* either case.
WrongPathTypeErrors ==
  /\ (lastOp.op = "ls" /\ IsFilePath(lastOp.path)) =>
       lastOp.result.kind = "NotADirectory" /\ lastOp.calls = <<>>
  /\ (lastOp.op \in {"open", "update"} /\ IsDirPath(lastOp.path)) =>
       lastOp.result.kind = "IsADirectory" /\ lastOp.calls = <<>>

\* C10: a mount succeeds iff the point is absolute and directory-typed; a
\* rejected mount leaves the table as it was; a successful one appends one
\* entry, the point with its source, after the existing entries, which stay
\* as they were, also when the point is already mounted.
MountAppendsOrRejects ==
  [][(lastOp.op = "idle" /\ lastOp'.op = "mount") =>
       IF IsDirPath(lastOp'.path)
       THEN /\ lastOp'.result.kind = "Ok"
            /\ mounts' = Append(mounts, [point |-> lastOp'.path,
                                         source |-> lastOp'.arg])
       ELSE /\ lastOp'.result.kind # "Ok"
            /\ mounts' = mounts]_vars

\* A successful mount of a point that the previous entry of the table
\* already has, with the same source.
MountAppendsOrRejectsWitness ==
  /\ lastOp.op = "mount"
  /\ lastOp.result.kind = "Ok"
  /\ Len(mounts) >= 2
  /\ mounts[Len(mounts)] = mounts[Len(mounts) - 1]

-----------------------------------------------------------------------------
(* Claims about the engine shared by threads                               *)

\* The threads that are inside the loop of open, update or ls.
Traversing == {t \in Readers : threads[t].pc \in {"walk", "callback"}}

\* C11: with mount running beside open, list and update on clones of one
\* engine, a traversal uses a single state of the mount table from its
\* beginning to its end: while a thread is in its loop the table is the one
\* it found when it took its guard, with the length its iterator was made
\* for; and that table holds every mount that had returned success when the
\* thread made its call.
SingleTableState ==
  \A t \in Traversing :
     /\ mounts = threads[t].snap
     /\ threads[t].n = Len(mounts)
     /\ Len(threads[t].snap) >= threads[t].floor

\* A thread is past the first entry of a table of two mounts, both returned
\* before its call, while a third mount waits for the write guard.
SingleTableStateWitness ==
  \E t \in Traversing :
     /\ threads[t].pos >= 1
     /\ threads[t].floor >= 2
     /\ \E m \in Mounters : threads[m].pc = "mount_write"

\* C12: no source callback runs while the write guard is out: a thread in a
\* callback holds a read guard and no thread holds the write guard, and the
\* write guard is held by a mount only from its call of write() to its
\* return, for the push.
NoCallbackUnderWriteGuard ==
  /\ \A t \in Clones :
       threads[t].pc = "callback" => lock.writer = "none" /\ t \in lock.readers
  /\ \A t \in Clones :
       lock.writer = t <=> threads[t].pc \in {"mount_push", "mount_unlock"}

\* Two threads are in callbacks at once, under shared guards, while a mount
\* waits for the write guard.
NoCallbackUnderWriteGuardWitness ==
  /\ \A t \in Readers : threads[t].pc = "callback"
  /\ lock.readers = Readers
  /\ \E m \in Mounters : threads[m].pc = "mount_write"

-----------------------------------------------------------------------------
(* Vocabulary of the properties of paths                                   *)

Dot == <<".">>
DotDot == <<".", ".">>

HasDoubleSlash(t) == \E i \in 1..(Len(t) - 1) : t[i] = "/" /\ t[i + 1] = "/"

\* try_from_str has been called and has made a path.
Made == pathOp.op = "try_from_str" /\ pathOp.result.kind = "Ok"

\* No component is "."; ".." components come before every other component,
\* and there is none in an absolute path.
DotsCanonical(p) ==
  LET cs == components(p)
  IN /\ \A k \in 1..Len(cs) : cs[k] # Dot
     /\ is_absolute(p) => \A k \in 1..Len(cs) : cs[k] # DotDot
     /\ \A k \in 1..Len(cs) :
          cs[k] = DotDot => \A j \in 1..k : cs[j] = DotDot

\* A name a component may be: not empty, and none of the four patterns.
ValidName(c) ==
  /\ c # <<>>
  /\ ~INVALID_PATH_PREFIX_CHAR_PATTERN(c)
  /\ ~INVALID_PATH_SUFFIX_CHAR_PATTERN(c)
  /\ ~INVALID_PATH_CHAR_PATTERN(c)
  /\ ~INVALID_PATH_NAME_PATTERN(c)

NamesValid(cs) ==
  \A k \in 1..Len(cs) : cs[k] \in {Dot, DotDot} \/ ValidName(cs[k])

\* The invariants of a path value: no "//", dots in canonical position, valid
\* names, decomposed text.
ValidPath(p) ==
  /\ ~HasDoubleSlash(p)
  /\ DotsCanonical(p)
  /\ NamesValid(components(p))
  /\ \A i \in 1..Len(p) : p[i] # "E"

RECURSIVE RisesAboveRoot(_, _)
\* Read from the root, at the given depth, the components reach a ".." at
\* depth 0.
RisesAboveRoot(cs, depth) ==
  IF cs = <<>> THEN FALSE
  ELSE IF Head(cs) = Dot THEN RisesAboveRoot(Tail(cs), depth)
  ELSE IF Head(cs) = DotDot
  THEN depth = 0 \/ RisesAboveRoot(Tail(cs), depth - 1)
  ELSE RisesAboveRoot(Tail(cs), depth + 1)

RECURSIVE DirText(_)
\* The components, each followed by "/".
DirText(cs) ==
  IF cs = <<>> THEN <<>> ELSE (Head(cs) \o <<"/">>) \o DirText(Tail(cs))

\* The path without its last component, up to and with the "/" before it.
WithoutLastComponent(p) ==
  LET cs == components(p)
  IN (IF is_absolute(p) THEN <<"/">> ELSE <<>>)
       \o DirText(SubSeq(cs, 1, Len(cs) - 1))

RECURSIVE JoinExpected(_, _)
\* One component of self goes for each leading "../" of r, down to the empty
\* path and not beyond the root; what is left of r is appended.
JoinExpected(self, r) ==
  IF ~starts_with(r, <<".", ".", "/">>) THEN Ok(self \o r)
  ELSE IF self = <<"/">> THEN Err("EscapedRoot")
  ELSE IF self = <<>> THEN Ok(r)
  ELSE JoinExpected(WithoutLastComponent(self), SubSeq(r, 4, Len(r)))

-----------------------------------------------------------------------------
(* Claims about paths                                                      *)

\* C13: every path that try_from_str accepts has no two consecutive "/" and
\* no empty component, and every text with a "//" in it is rejected.
NoDoubleSlashAccepted ==
  pathOp.op = "try_from_str" =>
    /\ pathOp.result.kind = "Ok" =>
         /\ ~HasDoubleSlash(pathOp.result.val)
         /\ \A k \in 1..Len(components(pathOp.result.val)) :
              components(pathOp.result.val)[k] # <<>>
    /\ HasDoubleSlash(pathOp.self) => pathOp.result.kind # "Ok"

\* C14: in every path that try_from_str accepts no component is "." and ".."
\* components are only a leading run of a relative path; an absolute text
\* of valid names whose ".." would rise above the root, and which does not
\* end in "..", fails with EscapedRoot.
DotDotOnlyLeadsRelative ==
  pathOp.op = "try_from_str" =>
    /\ pathOp.result.kind = "Ok" => DotsCanonical(pathOp.result.val)
    /\ ( /\ is_absolute(pathOp.self)
         /\ NamesValid(components(pathOp.self))
         /\ ~ends_with(pathOp.self, <<"/", ".", ".">>)
         /\ RisesAboveRoot(components(pathOp.self), 0) )
       => pathOp.result = Err("EscapedRoot")

\* C15: normalization is idempotent: the text of a path that try_from_str
\* made is accepted by try_from_str and gives that same text.
NormalizationIdempotent ==
  Made => try_from_str(pathOp.result.val) = Ok(pathOp.result.val)

\* C16: normalization preserves absoluteness: the path that try_from_str
\* made of s is absolute iff s begins with "/".
AbsolutenessPreserved ==
  Made => (is_absolute(pathOp.result.val) <=> starts_with(pathOp.self, <<"/">>))

JoinKeepsInvariants ==
  ( /\ pathOp.op = "try_join"
    /\ is_directory(pathOp.self)
    /\ ValidPath(pathOp.self)
    /\ ~is_absolute(pathOp.moar)
    /\ ValidPath(pathOp.moar)
    /\ pathOp.result.kind = "Ok" )
  => /\ ValidPath(pathOp.after)
     /\ try_from_str(pathOp.after) = Ok(pathOp.after)

\* C19: the parent of "/" is "/", the parent of the empty path is the empty
\* path, the parent of any other valid path is the path without its last
\* component; when up_one_level returns true on a valid path, the buffer
\* holds the parent of the path it held.
ParentAndUpOneLevel ==
  /\ pathOp.op = "parent" =>
       IF pathOp.self = <<"/">> THEN pathOp.result = <<"/">>
       ELSE IF pathOp.self = <<>> THEN pathOp.result = <<>>
       ELSE ValidPath(pathOp.self) =>
              pathOp.result = WithoutLastComponent(pathOp.self)
  /\ ( /\ pathOp.op = "up_one_level"
       /\ pathOp.result = TRUE
       /\ ValidPath(pathOp.self) )
     => pathOp.after = parent(pathOp.self)

\* C20: extension gives the text after the last "." of the last component
\* when that component has a "." in it, and nothing when it has none or the
\* path has no component.
ExtensionOfLastComponent ==
  pathOp.op = "extension" =>
    LET cs == components(pathOp.self)
        last == cs[Len(cs)]
        dots == {i \in 1..Len(last) : last[i] = "."}
    IN IF cs = <<>> THEN pathOp.result = None
       ELSE IF dots = {} THEN pathOp.result = None
       ELSE \E k \in dots :
              /\ \A i \in dots : i <= k
              /\ pathOp.result = Some(SubSeq(last, k + 1, Len(last)))

\* C21: with_prefix_absolute returns normally for every path s and every
\* directory path o, the empty one included; it returns Some(r) exactly when
\* the text of o without its trailing '/' followed by some r that begins
\* with '/' is the text of s, and that r is what it returns; for a file path
\* o it returns None.
PrefixStrippedAtBoundary ==
  pathOp.op = "with_prefix_absolute" =>
    LET s == pathOp.self
        o == pathOp.moar
        base == IF Len(o) = 0 THEN <<>> ELSE SubSeq(o, 1, Len(o) - 1)
        under == /\ is_directory(o)
                 /\ Len(s) > Len(base)
                 /\ SubSeq(s, 1, Len(base)) = base
                 /\ s[Len(base) + 1] = "/"
    IN /\ pathOp.result.tag \in {"None", "Some"}
       /\ pathOp.result.tag = "Some" <=> under
       /\ pathOp.result.tag = "Some" =>
             /\ starts_with(pathOp.result.val, <<"/">>)
             /\ base \o pathOp.result.val = s

\* A path in canonical form: it satisfies the invariants of paths and
\* try_from_str gives it back as it is.
Canonical(p) == ValidPath(p) /\ try_from_str(p) = Ok(p)

\* C26: a try_join that returns an error (PathNotRelative, BasePathNotDir
\* or EscapedRoot) leaves the PathBuf with the text it had before the call.
JoinErrorKeepsSelf ==
  ( /\ pathOp.op = "try_join"
    /\ Canonical(pathOp.self)
    /\ Canonical(pathOp.moar)
    /\ pathOp.result.kind # "Ok" )
  => pathOp.after = pathOp.self

\* C27: for a valid directory path d and a valid relative path r,
\* d.try_join(r) succeeds exactly when try_from_str accepts the text d+r,
\* and then gives the text try_from_str gives.
JoinIsNormalizedConcatenation ==
  ( /\ pathOp.op = "try_join"
    /\ is_directory(pathOp.self)
    /\ Canonical(pathOp.self)
    /\ ~is_absolute(pathOp.moar)
    /\ Canonical(pathOp.moar) )
  => LET n == try_from_str(pathOp.self \o pathOp.moar)
     IN /\ pathOp.result.kind = "Ok" <=> n.kind = "Ok"
        /\ pathOp.result.kind = "Ok" => pathOp.result.val = n.val

\* C30: when every mount is an in-memory source and ls of a directory has
\* succeeded, every file entry X of the list can be opened at the directory
\* joined with X, every directory entry X/ can be listed at the directory
\* joined with X/, and open of the file path of a name listed as X/ does
\* not succeed.
ListedCanBeReached ==
  ( /\ lastOp.op = "ls"
    /\ lastOp.result.kind = "Ok"
    /\ \A i \in 1..Len(mounts) : mounts[i].source.kind = "rom" )
  => \A e \in Elems(lastOp.result.val) :
       IF is_directory(e)
       THEN /\ \A run \in VFSLs(mounts, lastOp.path \o e) :
                  run.result.kind = "Ok"
            /\ \A run \in VFSOpen(mounts, lastOp.path \o StripSlash(e)) :
                  run.result.kind # "Ok"
       ELSE \A run \in VFSOpen(mounts, lastOp.path \o e) :
              run.result.kind = "Ok"

\* The thread is in a call that has not returned.
InCall(t) == threads[t].pc \notin {"idle", "done"}

\* C25: under fair scheduling every mount, open, list and update call
\* eventually returns; a pending mount is not starved by traversals and
\* does not block them for ever.
EveryCallReturns ==
  \A t \in Clones : InCall(t) ~> (threads[t].pc = "done")

\* C24: for every literal s, p!(s) is accepted iff try_from_str(s)
\* succeeds; an accepted literal has the text try_from_str returns, and a
\* rejected one reports the error try_from_str returns.
LiteralAgreesWithTryFromStr ==
  pathOp.op = "p" =>
    LET r == try_from_str(pathOp.self)
    IN /\ pathOp.result.kind = r.kind
       /\ r.kind = "Ok" => pathOp.result.val = r.val

-----------------------------------------------------------------------------
(* The in-memory source: what is said of it                                *)

LastComponent(p) == components(p)[Len(components(p))]

\* q lies inside the directory (or file) p.
Beneath(p, q) ==
  /\ Len(components(q)) > Len(components(p))
  /\ SubSeq(components(q), 1, Len(components(p))) = components(p)

RECURSIVE ChildrenSorted(_)
\* In every directory of the tree the names of the children ascend strictly.
ChildrenSorted(node) ==
  node.type = "Dir" =>
    /\ \A i \in 1..(Len(node.subnodes) - 1) :
          StrCmp(node.subnodes[i].name, node.subnodes[i + 1].name) = "Less"
    /\ \A i \in 1..Len(node.subnodes) : ChildrenSorted(node.subnodes[i].node)

\* C22: whenever Source::new has gone through entries without a panic, for
\* every entry e gone through: ls of parent(e) succeeds and holds the last
\* component of e, with a trailing '/' iff e is a directory path or another
\* entry lies beneath it, and without one otherwise; open of a file entry
\* gives the bytes listed for it; and in every directory the children are
\* sorted by name with no name twice.
RomHoldsItsListing ==
  rom.root.type # "Panic" =>
    /\ ChildrenSorted(rom.root)
    /\ \A i \in 1..Len(rom.listing) :
          LET e == rom.listing[i].path
              listed == RomLs(rom.root, parent(e))
              asDir == \/ is_directory(e)
                       \/ \E j \in 1..Len(rom.listing) :
                             Beneath(e, rom.listing[j].path)
              file == LastComponent(e)
              dir == make_file_into_dir(LastComponent(e))
          IN /\ listed.kind = "Ok"
             /\ (IF asDir THEN dir ELSE file) \in Elems(listed.val)
             /\ (IF asDir THEN file ELSE dir) \notin Elems(listed.val)
             /\ ~is_directory(e) =>
                   RomOpen(rom.root, e) = Ok(rom.listing[i].data)

\* A file two levels down, then a file in a directory whose name comes
\* before: the root, listed, gives the two directories in order.
RomHoldsItsListingWitness ==
  /\ Len(rom.listing) >= 2
  /\ rom.listing[1].path = <<"/", "b", "/", "a">>
  /\ rom.listing[2].path = <<"/", "a", "/", "b">>
  /\ rom.call.op = "ls"
  /\ rom.call.path = <<"/">>
  /\ rom.call.result.kind = "Ok"
  /\ rom.call.result.val = << <<"a", "/">>, <<"b", "/">> >>

\* The preconditions of Source::new on a listing: every path absolute, no
\* data with a directory, no entry for the root, no entry inside a file, no
\* two entries for one name.
ListingPreconditions(listing) ==
  /\ \A i \in 1..Len(listing) :
        /\ is_absolute(listing[i].path)
        /\ is_directory(listing[i].path) => listing[i].data = ""
        /\ listing[i].path # <<"/">>
  /\ \A i, j \in 1..Len(listing) :
        /\ ~is_directory(listing[i].path)
              => ~Beneath(listing[i].path, listing[j].path)
        /\ i # j => components(listing[i].path) # components(listing[j].path)

\* The listing in every order.
Reordered(listing) ==
  {[i \in 1..Len(listing) |-> listing[f[i]]] :
     f \in Permutations(1..Len(listing))}

\* C28: a listing that satisfies the preconditions is accepted in every
\* order without a panic and gives the same tree in every order, also when
\* the entry of a directory comes after an entry inside that directory.
RomOrderIndependent ==
  ListingPreconditions(rom.listing) =>
    \A l \in Reordered(rom.listing) :
       /\ RomNew(l).type # "Panic"
       /\ RomNew(l) = rom.root

-----------------------------------------------------------------------------
(* The filesystem source: what is said of it                               *)

\* How many times the name is in the list.
Times(name, list) == Cardinality({i \in 1..Len(list) : list[i] = name})

\* C23: when an update of X that began with X in the directory is cut short
\* by a crash after one, two, three or all four of its steps, open(X) then
\* succeeds and reads all of the old contents or all of the new ones, never
\* a part of a file, and ls of the directory gives the name X exactly once.
CrashLeavesOldOrNew ==
  (disk.last = "crash" /\ disk.began /\ disk.steps \in 1..4) =>
    /\ DiskOpen(disk.files) \in {disk.old, Ok(disk.data)}
    /\ \A listed \in DiskLs(disk.files) : Times(X, listed.val) = 1

\* C29: on a read-write source, whatever updates and crashes came before, an
\* update of X that returns an error leaves open(X), at its return, giving
\* what it gave before the call (a whole file or an error); and no step
\* takes X from where open(X) succeeds to where it fails.
UpdateErrorKeepsContents ==
  [][ (disk.made /\ ~disk.read_only) =>
        /\ ( /\ disk.pc > 0 /\ disk'.pc = 0 /\ disk'.last = "Err"
             /\ disk.old # Ok("part") )
              => DiskOpen(disk'.files) = disk.old
        /\ DiskOpen(disk.files).kind = "Ok"
              => DiskOpen(disk'.files).kind = "Ok" ]_vars

=============================================================================
